---- MODULE Spec2Model ----
(***************************************************************************)
(* A model of the datagouv client library (src/Datagouv.ts): the static    *)
(* operations of class Datagouv, each a promise chain over one or two      *)
(* HTTP requests, run by a single caller against one remote dataset.       *)
(*                                                                         *)
(* Text values (titles, descriptions, urls, file paths) are sequences of   *)
(* one-character strings; identifiers, API keys and url segments are       *)
(* strings.  An optional field of a JavaScript object is a sequence of     *)
(* zero elements (undefined) or one element (the value).                   *)
(***************************************************************************)
EXTENDS Integers, Sequences, FiniteSets, TLC

\* The field names of the model's records.  Every record below lists its fields
\* in this one order.
FieldNames ==
    [id |-> "id", title |-> "title", description |-> "description", url |-> "url", rest |-> "rest",
     type |-> "type", filetype |-> "filetype", format |-> "format", mime |-> "mime", tag |-> "tag",
     success |-> "success", res |-> "res", resources |-> "resources", message |-> "message",
     status |-> "status", data |-> "data", response |-> "response", hasResponse |-> "hasResponse",
     state |-> "state", resp |-> "resp", value |-> "value", error |-> "error", text |-> "text",
     path |-> "path", rid |-> "rid", method |-> "method", headers |-> "headers", kind |-> "kind",
     json |-> "json", file |-> "file", name |-> "name", filePath |-> "filePath",
     fileKind |-> "fileKind", baseUrl |-> "baseUrl", datasetId |-> "datasetId",
     contentType |-> "contentType", apiKey |-> "apiKey", resource_id |-> "resource_id",
     resource |-> "resource", payload |-> "payload", pattern |-> "pattern",
     confirmDelete |-> "confirmDelete", verbose |-> "verbose", matched |-> "matched",
     index |-> "index", anchored |-> "anchored", lit |-> "lit", req |-> "req", remote |-> "remote",
     nextId |-> "nextId"]

\* ----------------------------------------------------------------- bounds
\* Longest file path the caller passes.
MaxPathLen == 2
\* Number of calls the caller makes in one behaviour.
MaxOps == 2
\* Number of resource ids the remote service ever assigns.
MaxResources == 2

\* -------------------------------------------------------------- constants
\* The status deleteResource accepts as success.
NoContent == 204

Chars == {"/", "a"}
Undefined == "undefined"

BaseUrls == {"https://api"}
DatasetIds == {"ds1", "ds2"}
ApiKeys == {"k1", "k2"}
\* What the remote service holds: one dataset, one valid key.
TheDataset == "ds1"
ValidKey == "k1"

Paths == UNION {[1..n -> Chars] : n \in 0..MaxPathLen}
\* Values a caller supplies for description, title and url.
FieldValues == {<<"b", "a">>}
Optional(S) == {<<>>} \cup {<<v>> : v \in S}
Payloads == [title : Optional(FieldValues), description : Optional(FieldValues), url : Optional(FieldValues)]
PayloadKeys == {"title", "description", "url"}

\* ------------------------------------------------------------ data shapes
NoRes == [id |-> Undefined, title |-> <<>>, description |-> <<>>, url |-> <<>>]
Resource(id, title, description, url) == [id |-> id, title |-> title, description |-> description, url |-> url]

\* A response body.  tag: "empty" (the empty string), "resource", "dataset",
\* "upload" (a resource with a success flag), "message" (an error object with a
\* message), "text" (a body that is no object, without a message).
Data(tag, success, res, resources, message) == [tag |-> tag, success |-> success, res |-> res, resources |-> resources, message |-> message]
EmptyData == Data("empty", "absent", NoRes, <<>>, Undefined)
ResourceData(res) == Data("resource", "absent", res, <<>>, Undefined)
DatasetData(resources) == Data("dataset", "absent", NoRes, resources, Undefined)
UploadData(success, res) == Data("upload", success, res, <<>>, Undefined)
ErrorData(tag) == Data(tag, "absent", NoRes, <<>>, IF tag = "message" THEN "upstream message" ELSE Undefined)

\* A response of the transport: status 0 stands for "no response at all".
Response(status, data) == [status |-> status, data |-> data]
NoResponse == Response(0, EmptyData)

\* A JavaScript error value.  An AxiosError carries the response when there is one.
Err(type, message, response, hasResponse) == [type |-> type, message |-> message, response |-> response, hasResponse |-> hasResponse]
NoErr == Err("none", "", NoResponse, FALSE)
Error(message) == Err("Error", message, NoResponse, FALSE)
TypeError(message) == Err("TypeError", message, NoResponse, FALSE)

\* A settled promise.
Promise(state, resp, value, error) == [state |-> state, resp |-> resp, value |-> value, error |-> error]
Fulfilled(value) == Promise("fulfilled", NoResponse, value, NoErr)
FulfilledResp(resp) == Promise("fulfilled", resp, resp.data, NoErr)
Rejected(error) == Promise("rejected", NoResponse, EmptyData, error)
Pending == Promise("pending", NoResponse, EmptyData, NoErr)
NotCalled == Promise("none", NoResponse, EmptyData, NoErr)

\* A console.log line.
LogLine(text, path, rid, status, message, data) == [message |-> message, status |-> status, data |-> data, text |-> text, path |-> path, rid |-> rid]

\* --------------------------------------------------------- pure functions
\* String.prototype.split with a one-character separator.
RECURSIVE split(_, _)
split(s, sep) ==
    IF \A i \in 1..Len(s) : s[i] # sep
    THEN <<s>>
    ELSE LET i == CHOOSE k \in 1..Len(s) : s[k] = sep /\ \A j \in 1..(k - 1) : s[j] # sep
         IN <<SubSeq(s, 1, i - 1)>> \o split(SubSeq(s, i + 1, Len(s)), sep)

\* Array.prototype.pop: the last element, as an optional (undefined on []).
pop(arr) == IF Len(arr) = 0 THEN <<>> ELSE <<arr[Len(arr)]>>

\* Array.prototype.join("/") of url segments, kept as the list of segments the
\* service routes on: undefined joins as the empty string.
join(parts) == [i \in DOMAIN parts |-> IF parts[i] = Undefined THEN "" ELSE parts[i]]

\* JSON.stringify of an object of optional fields: a key whose value is
\* undefined is left out.
JSONstringify(payload) == [k \in {f \in DOMAIN payload : payload[f] # <<>>} |-> payload[k][1]]

\* A variant of baseName that takes the first path segment (shift for pop).
baseNameShift(filePath) == <<split(filePath, "/")[1]>>

\* The title createResourceFromFile renames to.
baseName(filePath) == pop(split(filePath, "/"))

\* ---------------------------------------------------------------- requests
Headers(contentType, apiKey) == [contentType |-> contentType, apiKey |-> apiKey]
Request(method, url, headers, kind, json, file) == [url |-> url, method |-> method, headers |-> headers, kind |-> kind, json |-> json, file |-> file]
NoJson == [k \in {} |-> <<>>]

getDatasetMetadataRequest(baseUrl, datasetId) ==
    Request("get", join(<<baseUrl, "datasets", datasetId>>), Headers(Undefined, Undefined), "none", NoJson, <<>>)

\* A variant of updateResourceRequest that sends the caller's whole copy of the
\* resource with the payload spread over it.
updateResourceRequestWhole(resource, api_base_url, dataset_id, datagouv_apiKey, payload) ==
    Request("put", join(<<api_base_url, "datasets", dataset_id, "resources", resource.id>>),
            Headers("application/json", datagouv_apiKey), "json",
            JSONstringify([k \in DOMAIN payload |-> IF payload[k] # <<>> THEN payload[k] ELSE <<resource[k]>>]), <<>>)

updateResourceRequest(resource, api_base_url, dataset_id, datagouv_apiKey, payload) ==
    Request("put", join(<<api_base_url, "datasets", dataset_id, "resources", resource.id>>),
            Headers("application/json", datagouv_apiKey), "json", JSONstringify(payload), <<>>)

uploadRequest(filePath, datagouvBaseUrl, datasetId, datagouv_apiKey) ==
    Request("post", join(<<datagouvBaseUrl, "datasets", datasetId, "upload">>),
            Headers(Undefined, datagouv_apiKey), "form", NoJson, filePath)

deleteResourceRequest(resource_id, datagouvBaseUrl, dataset_id, datagouv_apiKey) ==
    Request("delete", join(<<datagouvBaseUrl, "datasets", dataset_id, "resources", resource_id>>),
            Headers(Undefined, datagouv_apiKey), "none", NoJson, <<>>)

VARIABLES remote, nextId, pc, call, inflight, arrived, requests, handled, log, outcome, prior, nOps

vars == <<remote, nextId, pc, call, inflight, arrived, requests, handled, log, outcome, prior, nOps>>

\* ------------------------------------------------------------------ calls
NoPayload == [title |-> <<>>, description |-> <<>>, url |-> <<>>]
NoPattern == [anchored |-> FALSE, lit |-> <<>>]
NoCall == [name |-> "none", filePath |-> <<>>, fileKind |-> "missing", baseUrl |-> Undefined,
           datasetId |-> Undefined, apiKey |-> Undefined, resource_id |-> Undefined,
           resource |-> NoRes, payload |-> NoPayload, pattern |-> NoPattern,
           confirmDelete |-> FALSE, verbose |-> FALSE, matched |-> <<>>, index |-> 0]

ResourceIds == {ToString(n) : n \in 1..MaxResources}
\* The caller's own copy of a resource: only its id is authoritative.
LocalResources == {Resource(id, <<"/">>, <<"/">>, <<"/">>) : id \in ResourceIds}
\* What the file system holds at a path: a path that is empty or ends with the
\* separator names no regular file.
FileKinds(filePath) == IF Len(filePath) = 0 THEN {"missing"} ELSE IF filePath[Len(filePath)] = "/" THEN {"missing", "dir"} ELSE {"missing", "file"}

\* ------------------------------------------------- the remote service
\* The error answers of the service: a status with an error object that has a
\* message, or with a body that has none.
ErrorAnswers == {<<404, "message">>, <<500, "text">>}
DeleteStatuses == {NoContent, 200}
InferredTitles(filePath) == {<<"b", "a">>} \cup {t[1] : t \in {baseName(filePath)}}

Route(req) ==
    LET u == req.url IN
    CASE req.method = "get" /\ Len(u) = 3 -> "dataset"
      [] req.method = "post" /\ Len(u) = 4 /\ u[4] = "resources" -> "create"
      [] req.method = "post" /\ Len(u) = 4 /\ u[4] = "upload" -> "upload"
      [] req.method = "put" /\ Len(u) = 5 -> "update"
      [] req.method = "delete" /\ Len(u) = 5 -> "delete"
      [] OTHER -> "unknown"

Index(rem, rid) == IF \E i \in DOMAIN rem : rem[i].id = rid THEN CHOOSE i \in DOMAIN rem : rem[i].id = rid ELSE 0
Known(req) == req.url[1] \in BaseUrls /\ req.url[3] = TheDataset
Authorized(req) == Known(req) /\ req.headers.apiKey = ValidKey
Remove(rem, i) == SubSeq(rem, 1, i - 1) \o SubSeq(rem, i + 1, Len(rem))
\* A partial update: the fields of the body replace the resource's, the others stay.
Patch(res, json) == [f \in DOMAIN res |-> IF f \in DOMAIN json THEN json[f] ELSE res[f]]

Effect(resp, rem, nid) == [resp |-> resp, remote |-> rem, nextId |-> nid]

\* A request that fails leaves the service as it was: an error status with an
\* error body, or no response at all.
Failures(rem, nid) ==
    {Effect(Response(a[1], ErrorData(a[2])), rem, nid) : a \in ErrorAnswers}
        \cup {Effect(NoResponse, rem, nid)}

Successes(req, fileKind, rem, nid) ==
    LET route == Route(req)
        i == IF route \in {"update", "delete"} THEN Index(rem, req.url[5]) ELSE 0
    IN CASE route = "dataset" /\ Known(req) -> {Effect(Response(200, DatasetData(rem)), rem, nid)}
         [] route = "create" /\ Authorized(req) /\ nid <= MaxResources ->
                LET new == Resource(ToString(nid), req.json["title"], req.json["description"], req.json["url"])
                IN {Effect(Response(201, ResourceData(new)), Append(rem, new), nid + 1)}
         [] route = "upload" /\ Authorized(req) /\ fileKind = "file" ->
                {Effect(Response(200, UploadData(s, NoRes)), rem, nid) : s \in {"false", "absent"}}
                    \cup (IF nid <= MaxResources
                          THEN {Effect(Response(201, UploadData("true", Resource(ToString(nid), t, <<"a">>, <<"a">>))),
                                       Append(rem, Resource(ToString(nid), t, <<"a">>, <<"a">>)), nid + 1)
                                    : t \in InferredTitles(req.file)}
                          ELSE {})
         [] route = "update" /\ Authorized(req) /\ i > 0 ->
                {Effect(Response(200, ResourceData(Patch(rem[i], req.json))), [rem EXCEPT ![i] = Patch(rem[i], req.json)], nid)}
         [] route = "delete" /\ Authorized(req) /\ i > 0 ->
                {Effect(Response(s, EmptyData), Remove(rem, i), nid) : s \in DeleteStatuses}
         [] OTHER -> {}

\* A file that cannot be read fails the request before any response.
RemoteOutcomes(req, fileKind, rem, nid) ==
    IF Route(req) = "upload" /\ fileKind # "file"
    THEN {Effect(NoResponse, rem, nid)}
    ELSE Failures(rem, nid) \cup Successes(req, fileKind, rem, nid)

\* ------------------------------------------------------------ transport
\* axios: a 2xx status fulfils with the response, any other status rejects with
\* an error that carries the response, and a failed request rejects with an
\* error that carries none.
axios(resp) ==
    IF resp.status = 0 THEN Rejected(Err("AxiosError", "Network Error", NoResponse, FALSE))
    ELSE IF resp.status >= 200 /\ resp.status < 300 THEN FulfilledResp(resp)
    ELSE Rejected(Err("AxiosError", "Request failed", resp, TRUE))

\* .then(r => r.data): the handler of a then runs on a fulfilled promise, a
\* rejected promise passes through.
dataOf(p) == IF p.state = "fulfilled" THEN Fulfilled(p.resp.data) ELSE p

\* ------------------------------------------------- getDatasetMetadata
getDatasetMetadataSettle(resp) == dataOf(axios(resp))

\* ----------------------------------------------- createResourceRemote
createResourceRemotePayload(title, description, url) ==
    [title |-> <<title>>, description |-> <<description>>, url |-> <<url>>, type |-> <<"main">>,
     filetype |-> <<"remote">>, format |-> <<"csv">>, mime |-> <<"text/csv">>]

createResourceRemoteRequest(baseUrl, datasetId, title, description, url, datagouv_apiKey) ==
    Request("post", join(<<baseUrl, "datasets", datasetId, "resources">>),
            Headers("application/json", datagouv_apiKey), "json",
            JSONstringify(createResourceRemotePayload(title, description, url)), <<>>)

createResourceRemoteSettle(resp) == dataOf(axios(resp))

\* A variant of updateResourceSettle that catches the failure and throws a
\* generic error in its place.
updateResourceSettleGeneric(resp) == IF axios(resp).state = "rejected" THEN Rejected(Error("Resource update failed")) ELSE dataOf(axios(resp))

\* ------------------------------------------------------ updateResource
updateResourceSettle(resp) == dataOf(axios(resp))

\* updateResourceDescription: updateResource with {description}.
updateResourceDescriptionPayload(description) == [NoPayload EXCEPT !.description = <<description>>]

\* A variant of createResourceFromFileSends that sends the rename along with
\* the upload instead of chaining it.
createResourceFromFileSendsBoth(filePath, datagouvBaseUrl, datasetId, datagouv_apiKey) ==
    <<uploadRequest(filePath, datagouvBaseUrl, datasetId, datagouv_apiKey),
      updateResourceRequest(NoRes, datagouvBaseUrl, datasetId, datagouv_apiKey, [NoPayload EXCEPT !.title = baseName(filePath)])>>

\* A variant of uploadThen without the success check.
uploadThenUnchecked(p) == IF p.state # "fulfilled" THEN p ELSE Fulfilled(p.resp.data)

\* A variant of reshape that leaves the id out.
reshapeNoId(r) == [id |-> Undefined, title |-> r.res.title, description |-> r.res.description, url |-> r.res.url, rest |-> r]

\* ---------------------------------------------- createResourceFromFile
\* The requests the call itself sends, before any response.
createResourceFromFileSends(filePath, datagouvBaseUrl, datasetId, datagouv_apiKey) ==
    <<uploadRequest(filePath, datagouvBaseUrl, datasetId, datagouv_apiKey)>>

\* .then on the upload's response: a body whose success flag is not true throws.
uploadThen(p) ==
    IF p.state # "fulfilled" THEN p
    ELSE IF p.resp.data.success # "true"
    THEN Rejected(Error("Resource creation failed"))
    ELSE Fulfilled(p.resp.data)

uploadLog(p, filePath) ==
    IF p.state = "fulfilled" /\ p.resp.data.success # "true"
    THEN <<LogLine("Resource creation failed for", filePath, Undefined, 0, Undefined, EmptyData),
           LogLine("", <<>>, Undefined, 0, Undefined, p.resp.data)>>
    ELSE <<>>

\* .then(r => ({created_at: ..., id: r.id, title: r.title, ..., rest: r}))
reshape(r) == [id |-> r.res.id, title |-> r.res.title, description |-> r.res.description, url |-> r.res.url, rest |-> r]

\* The rename: updateResource(resource_created, ..., {title: filePath.split("/").pop()})
renamePayload(filePath) == [NoPayload EXCEPT !.title = baseName(filePath)]

renameRequest(r, filePath, datagouvBaseUrl, datasetId, datagouv_apiKey) ==
    updateResourceRequest(reshape(r), datagouvBaseUrl, datasetId, datagouv_apiKey, renamePayload(filePath))

\* A variant of deleteResourceSends that sends the request twice.
deleteResourceSendsTwice(resource_id, datagouvBaseUrl, dataset_id, datagouv_apiKey) ==
    <<deleteResourceRequest(resource_id, datagouvBaseUrl, dataset_id, datagouv_apiKey),
      deleteResourceRequest(resource_id, datagouvBaseUrl, dataset_id, datagouv_apiKey)>>

\* ------------------------------------------------------ deleteResource
deleteResourceSends(resource_id, datagouvBaseUrl, dataset_id, datagouv_apiKey) ==
    <<deleteResourceRequest(resource_id, datagouvBaseUrl, dataset_id, datagouv_apiKey)>>

deleteResourceThen(p) ==
    IF p.state # "fulfilled" THEN p
    ELSE IF p.resp.status # NoContent
    THEN Rejected(Error("HTTP code not 204 after deletion"))
    ELSE Fulfilled(p.resp.data)

\* .catch(r => { console.log(... r.response.status, r.response.data.message ...); throw ... }):
\* reading r.response.status of an error that carries no response throws a
\* TypeError before anything is logged.  A fulfilled promise passes through.
deleteResourceCatch(p) ==
    IF p.state # "rejected" THEN p
    ELSE IF ~p.error.hasResponse
    THEN Rejected(TypeError("Cannot read properties of undefined (reading 'status')"))
    ELSE Rejected(Error("Resource deletion failed"))

deleteResourceLog(p, resource_id) ==
    IF p.state = "rejected" /\ p.error.hasResponse
    THEN <<LogLine("Resource deletion failed for", <<>>, resource_id, p.error.response.status,
                   p.error.response.data.message, EmptyData)>>
    ELSE <<>>

deleteResourceSettle(resp) == deleteResourceCatch(deleteResourceThen(axios(resp)))

\* -------------------------- getMatchingResources, deleteResourceDatasetPattern
\* RegExp.test of a literal pattern, anchored at the start or not: a partial match.
test(pattern, title) ==
    LET n == Len(pattern.lit)
        starts == IF pattern.anchored THEN {1} ELSE 1..(Len(title) + 1)
    IN \E k \in starts : k + n - 1 <= Len(title) /\ SubSeq(title, k, k + n - 1) = pattern.lit

\* Array.prototype.filter: the matching resources, in the service's order.
RECURSIVE filter(_, _)
filter(resources, pattern) ==
    IF Len(resources) = 0 THEN <<>>
    ELSE (IF test(pattern, Head(resources).title) THEN <<Head(resources)>> ELSE <<>>)
             \o filter(Tail(resources), pattern)

getMatchingResourcesLog(matched, verbose) ==
    IF verbose THEN <<LogLine("Matching resources", <<>>, Undefined, 0, Undefined, DatasetData(matched))>> ELSE <<>>

\* A variant of deletes that ignores the flag.
deletesAlways(confirmDelete) == TRUE

\* Whether the delete loop deletes the matched resources.
deletes(confirmDelete) == confirmDelete

Patterns == {[anchored |-> FALSE, lit |-> <<"a">>], [anchored |-> TRUE, lit |-> <<"b">>]}

\* ---------------------------------------------------------------- actions
Init ==
    /\ \E k \in 0..MaxResources, t \in {<<"a">>, <<"b", "a">>} :
           remote = [n \in 1..k |-> Resource(ToString(n), IF n = 1 THEN t ELSE <<"a">>, <<"a">>, <<"a">>)]
               /\ nextId = k + 1
    /\ pc = "idle"
    /\ call = NoCall
    /\ inflight = {}
    /\ arrived = {}
    /\ requests = <<>>
    /\ handled = <<>>
    /\ log = <<>>
    /\ outcome = NotCalled
    /\ prior = remote
    /\ nOps = 0

Range(seq) == {seq[i] : i \in DOMAIN seq}

\* A call starts: the requests it sends at once are in flight.
Start(c, sends) ==
    /\ pc = "idle"
    /\ nOps < MaxOps
    /\ pc' = "running"
    /\ call' = c
    /\ requests' = sends
    /\ inflight' = Range(sends)
    /\ outcome' = Pending
    /\ prior' = remote
    /\ nOps' = nOps + 1
    /\ UNCHANGED <<remote, nextId, arrived, handled, log>>

\* A handler takes delivery d, logs lines, and either settles the call or goes
\* on with the requests in more.
Handle(d, lines, settled, more, c) ==
    /\ arrived' = arrived \ {d}
    /\ handled' = Append(handled, d)
    /\ log' = log \o lines
    /\ requests' = requests \o more
    /\ inflight' = inflight \cup Range(more)
    /\ outcome' = settled
    /\ pc' = IF settled.state = "pending" THEN "running" ELSE "settled"
    /\ call' = c
    /\ UNCHANGED <<remote, nextId, prior, nOps>>

getDatasetMetadata ==
    \E baseUrl \in BaseUrls, datasetId \in DatasetIds \cup {Undefined} :
        Start([NoCall EXCEPT !.name = "getDatasetMetadata", !.baseUrl = baseUrl, !.datasetId = datasetId],
              <<getDatasetMetadataRequest(baseUrl, datasetId)>>)

getDatasetMetadataThen ==
    /\ pc = "running" /\ call.name = "getDatasetMetadata"
    /\ \E d \in arrived : Handle(d, <<>>, getDatasetMetadataSettle(d.resp), <<>>, call)

createResourceRemote ==
    \E baseUrl \in BaseUrls, datasetId \in DatasetIds, v \in FieldValues, datagouv_apiKey \in ApiKeys :
        Start([NoCall EXCEPT !.name = "createResourceRemote", !.baseUrl = baseUrl, !.datasetId = datasetId,
                             !.apiKey = datagouv_apiKey, !.payload = [title |-> <<v>>, description |-> <<v>>, url |-> <<v>>]],
              <<createResourceRemoteRequest(baseUrl, datasetId, v, v, v, datagouv_apiKey)>>)

createResourceRemoteThen ==
    /\ pc = "running" /\ call.name = "createResourceRemote"
    /\ \E d \in arrived : Handle(d, <<>>, createResourceRemoteSettle(d.resp), <<>>, call)

updateResource ==
    \E resource \in LocalResources, api_base_url \in BaseUrls, dataset_id \in DatasetIds,
       datagouv_apiKey \in ApiKeys, payload \in Payloads :
        Start([NoCall EXCEPT !.name = "updateResource", !.baseUrl = api_base_url, !.datasetId = dataset_id,
                             !.apiKey = datagouv_apiKey, !.resource = resource, !.payload = payload],
              <<updateResourceRequest(resource, api_base_url, dataset_id, datagouv_apiKey, payload)>>)

updateResourceDescription ==
    \E resource \in LocalResources, api_base_url \in BaseUrls, dataset_id \in DatasetIds,
       description \in FieldValues, datagouv_apiKey \in ApiKeys :
        Start([NoCall EXCEPT !.name = "updateResourceDescription", !.baseUrl = api_base_url, !.datasetId = dataset_id,
                             !.apiKey = datagouv_apiKey, !.resource = resource,
                             !.payload = updateResourceDescriptionPayload(description)],
              <<updateResourceRequest(resource, api_base_url, dataset_id, datagouv_apiKey,
                                      updateResourceDescriptionPayload(description))>>)

updateResourceThen ==
    /\ pc = "running" /\ call.name \in {"updateResource", "updateResourceDescription"}
    /\ \E d \in arrived : Handle(d, <<>>, updateResourceSettle(d.resp), <<>>, call)

\* statSync throws on a missing file, synchronously and before any request.
createResourceFromFile ==
    \E filePath \in Paths, datagouvBaseUrl \in BaseUrls, datasetId \in DatasetIds, datagouv_apiKey \in ApiKeys :
        \E fileKind \in FileKinds(filePath) :
            LET c == [NoCall EXCEPT !.name = "createResourceFromFile", !.filePath = filePath, !.fileKind = fileKind,
                                    !.baseUrl = datagouvBaseUrl, !.datasetId = datasetId, !.apiKey = datagouv_apiKey]
            IN IF fileKind = "missing"
               THEN /\ pc = "idle" /\ nOps < MaxOps
                    /\ pc' = "settled" /\ call' = c /\ requests' = <<>> /\ inflight' = {}
                    /\ outcome' = Promise("threw", NoResponse, EmptyData, Error("ENOENT: no such file or directory"))
                    /\ prior' = remote /\ nOps' = nOps + 1
                    /\ UNCHANGED <<remote, nextId, arrived, handled, log>>
               ELSE Start(c, createResourceFromFileSends(filePath, datagouvBaseUrl, datasetId, datagouv_apiKey))

\* The upload's response: the success check, the reshape, then the rename is sent.
createResourceFromFileThen ==
    /\ pc = "running" /\ call.name = "createResourceFromFile"
    /\ \E d \in arrived :
        /\ Route(d.req) = "upload"
        /\ LET p == uploadThen(axios(d.resp))
           IN Handle(d, uploadLog(axios(d.resp), call.filePath),
                     IF p.state = "fulfilled" THEN Pending ELSE p,
                     IF p.state = "fulfilled"
                     THEN <<renameRequest(p.value, call.filePath, call.baseUrl, call.datasetId, call.apiKey)>>
                     ELSE <<>>,
                     call)

\* The rename's response: the renamed resource is the result.
createResourceFromFileRenamed ==
    /\ pc = "running" /\ call.name = "createResourceFromFile"
    /\ \E d \in arrived :
        /\ Route(d.req) = "update"
        /\ Handle(d, <<>>, updateResourceSettle(d.resp), <<>>, call)

deleteResource ==
    \E resource_id \in ResourceIds, datagouvBaseUrl \in BaseUrls, dataset_id \in DatasetIds, datagouv_apiKey \in ApiKeys :
        Start([NoCall EXCEPT !.name = "deleteResource", !.baseUrl = datagouvBaseUrl, !.datasetId = dataset_id,
                             !.apiKey = datagouv_apiKey, !.resource_id = resource_id],
              deleteResourceSends(resource_id, datagouvBaseUrl, dataset_id, datagouv_apiKey))

deleteResourceSettled ==
    /\ pc = "running" /\ call.name = "deleteResource"
    /\ \E d \in arrived :
        Handle(d, deleteResourceLog(deleteResourceThen(axios(d.resp)), call.resource_id),
               deleteResourceSettle(d.resp), <<>>, call)

getMatchingResources ==
    \E datasetId \in DatasetIds, baseUrl \in BaseUrls, pattern \in Patterns, verbose \in BOOLEAN :
        Start([NoCall EXCEPT !.name = "getMatchingResources", !.baseUrl = baseUrl, !.datasetId = datasetId,
                             !.pattern = pattern, !.verbose = verbose],
              <<getDatasetMetadataRequest(baseUrl, datasetId)>>)

getMatchingResourcesThen ==
    /\ pc = "running" /\ call.name = "getMatchingResources"
    /\ \E d \in arrived :
        LET p == getDatasetMetadataSettle(d.resp)
            matched == filter(p.value.resources, call.pattern)
        IN IF p.state = "fulfilled"
           THEN Handle(d, getMatchingResourcesLog(matched, call.verbose), Fulfilled(DatasetData(matched)), <<>>,
                       [call EXCEPT !.matched = matched])
           ELSE Handle(d, <<>>, p, <<>>, call)

deleteResourceDatasetPattern ==
    \E datasetId \in DatasetIds, baseUrl \in BaseUrls, datagouv_apiKey \in ApiKeys, pattern \in Patterns,
       confirmDelete \in BOOLEAN, verbose \in BOOLEAN :
        Start([NoCall EXCEPT !.name = "deleteResourceDatasetPattern", !.baseUrl = baseUrl, !.datasetId = datasetId,
                             !.apiKey = datagouv_apiKey, !.pattern = pattern, !.confirmDelete = confirmDelete,
                             !.verbose = verbose],
              <<getDatasetMetadataRequest(baseUrl, datasetId)>>)

\* The matching resources are known: the loop starts, or there is nothing to do.
deleteResourceDatasetPatternMatched ==
    /\ pc = "running" /\ call.name = "deleteResourceDatasetPattern"
    /\ \E d \in arrived :
        /\ Route(d.req) = "dataset"
        /\ LET p == getDatasetMetadataSettle(d.resp)
               matched == filter(p.value.resources, call.pattern)
               loop == deletes(call.confirmDelete) /\ Len(matched) > 0
           IN IF p.state = "fulfilled"
              THEN Handle(d, getMatchingResourcesLog(matched, call.verbose),
                          IF loop THEN Pending ELSE Fulfilled(DatasetData(matched)),
                          IF loop THEN deleteResourceSends(matched[1].id, call.baseUrl, call.datasetId, call.apiKey) ELSE <<>>,
                          [call EXCEPT !.matched = matched, !.index = 1])
              ELSE Handle(d, <<>>, p, <<>>, call)

\* One deletion of the loop is settled: a failure ends the call, a success goes
\* on with the next resource.
deleteResourceDatasetPatternNext ==
    /\ pc = "running" /\ call.name = "deleteResourceDatasetPattern"
    /\ \E d \in arrived :
        /\ Route(d.req) = "delete"
        /\ LET p == deleteResourceSettle(d.resp)
               lines == deleteResourceLog(deleteResourceThen(axios(d.resp)), call.matched[call.index].id)
               last == call.index = Len(call.matched)
           IN IF p.state = "rejected"
              THEN Handle(d, lines, p, <<>>, call)
              ELSE Handle(d, lines,
                          IF last THEN Fulfilled(DatasetData(call.matched)) ELSE Pending,
                          IF last THEN <<>>
                          ELSE deleteResourceSends(call.matched[call.index + 1].id, call.baseUrl, call.datasetId, call.apiKey),
                          [call EXCEPT !.index = call.index + 1])

\* The service (or the transport, when there is no response) answers a request
\* in flight.
Serve ==
    \E req \in inflight :
        \E e \in RemoteOutcomes(req, call.fileKind, remote, nextId) :
            /\ inflight' = inflight \ {req}
            /\ arrived' = arrived \cup {[resp |-> e.resp, req |-> req]}
            /\ remote' = e.remote
            /\ nextId' = e.nextId
            /\ UNCHANGED <<pc, call, requests, handled, log, outcome, prior, nOps>>

\* The caller has the result: nothing of the call is kept.
Return ==
    /\ pc = "settled"
    /\ pc' = "idle"
    /\ call' = NoCall
    /\ inflight' = {}
    /\ arrived' = {}
    /\ requests' = <<>>
    /\ handled' = <<>>
    /\ log' = <<>>
    /\ outcome' = NotCalled
    /\ prior' = remote
    /\ UNCHANGED <<remote, nextId, nOps>>

Next ==
    \/ getDatasetMetadata
    \/ getDatasetMetadataThen
    \/ createResourceRemote
    \/ createResourceRemoteThen
    \/ updateResource
    \/ updateResourceDescription
    \/ updateResourceThen
    \/ createResourceFromFile
    \/ createResourceFromFileThen
    \/ createResourceFromFileRenamed
    \/ deleteResource
    \/ deleteResourceSettled
    \/ getMatchingResources
    \/ getMatchingResourcesThen
    \/ deleteResourceDatasetPattern
    \/ deleteResourceDatasetPatternMatched
    \/ deleteResourceDatasetPatternNext
    \/ Serve
    \/ Return

Spec == Init /\ [][Next]_vars

\* ------------------------------------------------------------ properties
Ok(resp) == resp.status >= 200 /\ resp.status < 300
Supplied(payload) == {k \in PayloadKeys : payload[k] # <<>>}
IsPut(req) == req.method = "put"
IsUploadPost(req) == req.method = "post" /\ req.url[Len(req.url)] = "upload"
IsDelete(req) == req.method = "delete"
\* The part of a path after its last separator.
AfterLastSeparator(filePath) ==
    LET at == {i \in 1..Len(filePath) : filePath[i] = "/"}
        last == IF at = {} THEN 0 ELSE CHOOSE i \in at : \A j \in at : j <= i
    IN SubSeq(filePath, last + 1, Len(filePath))
DeletionFailed == Error("Resource deletion failed")
UploadFailed == Error("Resource creation failed")
InCreateFromFile == call.name = "createResourceFromFile"
UploadAnswered == InCreateFromFile /\ Len(handled) >= 1
RenameAnswered == InCreateFromFile /\ Len(handled) = 2

\* C1: deleteResource, whatever status the service answers with, resolves with
\* the response body if and only if the status is 204, and for every other
\* status rejects with the Deletion-Failed error "Resource deletion failed".
C1_DeleteResolvesIffNoContent ==
    (call.name = "deleteResource" /\ pc = "settled" /\ handled[1].resp.status # 0) =>
        IF handled[1].resp.status = 204
        THEN outcome = Fulfilled(handled[1].resp.data)
        ELSE outcome = Rejected(DeletionFailed)

\* C2: createResourceFromFile, when the upload's response body has its success
\* flag false, never sends a rename (PUT) and rejects with the Upload-Failed
\* error "Resource creation failed".
C2_UploadFailureNoRename ==
    (UploadAnswered /\ Ok(handled[1].resp) /\ handled[1].resp.data.success = "false") =>
        /\ \A i \in DOMAIN requests : ~IsPut(requests[i])
        /\ Len(requests) = 1
        /\ outcome = Rejected(UploadFailed)

C2_Witness ==
    /\ UploadAnswered /\ Ok(handled[1].resp) /\ handled[1].resp.data.success = "false"
    /\ pc = "settled"

\* C3: createResourceFromFile, when the upload and the rename both succeed,
\* returns the resource of the rename's response, and its title is the part of
\* the file path after the last "/", whatever title the upload inferred.
C3_RenamedToBaseName ==
    (InCreateFromFile /\ outcome.state = "fulfilled") =>
        /\ Len(handled) = 2
        /\ IsPut(handled[2].req)
        /\ outcome.value = handled[2].resp.data
        /\ outcome.value.res.title = AfterLastSeparator(call.filePath)

C3_Witness ==
    /\ InCreateFromFile /\ outcome.state = "fulfilled"
    /\ \E i \in 1..Len(call.filePath) : call.filePath[i] = "/"
    /\ handled[1].resp.data.res.title # outcome.value.res.title

\* C4: updateResource sends exactly the supplied fields of {description, title,
\* url}, with their values, and nothing else; once it has succeeded the fields
\* that were not supplied have their prior values on the service;
\* updateResourceDescription sends the description alone.
C4_UpdateSendsOnlySupplied ==
    (call.name \in {"updateResource", "updateResourceDescription"}) =>
        /\ Len(requests) = 1
        /\ DOMAIN requests[1].json = Supplied(call.payload)
        /\ \A k \in Supplied(call.payload) : requests[1].json[k] = call.payload[k][1]
        /\ call.name = "updateResourceDescription" => DOMAIN requests[1].json = {"description"}
        /\ outcome.state = "fulfilled" =>
               \E i \in DOMAIN prior :
                   /\ prior[i].id = call.resource.id
                   /\ Len(remote) = Len(prior)
                   /\ \A j \in DOMAIN prior : j # i => remote[j] = prior[j]
                   /\ remote[i].id = prior[i].id
                   /\ \A k \in PayloadKeys :
                          remote[i][k] = IF k \in Supplied(call.payload) THEN call.payload[k][1] ELSE prior[i][k]

C4_Witness ==
    /\ call.name = "updateResource"
    /\ outcome.state = "fulfilled"
    /\ Supplied(call.payload) = {"description"}
    /\ \E i \in DOMAIN remote :
           /\ remote[i].id = call.resource.id
           /\ remote[i].description # prior[i].description
           /\ remote[i].title = prior[i].title /\ remote[i].title # call.resource.title

\* C5: deleteResource, whatever made the deletion fail (an error status, a
\* success status other than 204, a request without a response), rejects with
\* the same generic Deletion-Failed error, which carries no status and no
\* message.
C5_DeleteFailureIsGeneric ==
    (call.name = "deleteResource" /\ outcome.state = "rejected") => outcome.error = DeletionFailed

\* C6: deleteResourceDatasetPattern with confirmDelete false sends no delete
\* request, and with either value of confirmDelete the list it returns is the
\* list of the dataset's resources whose title matches the pattern, in order.
C6_DryRunDeletesNothing ==
    (call.name = "deleteResourceDatasetPattern") =>
        /\ ~call.confirmDelete => \A i \in DOMAIN requests : ~IsDelete(requests[i])
        /\ ~call.confirmDelete => remote = prior
        /\ outcome.state = "fulfilled" =>
               outcome.value.resources = SelectSeq(prior, LAMBDA r : test(call.pattern, r.title))

C6_Witness ==
    /\ call.name = "deleteResourceDatasetPattern"
    /\ ~call.confirmDelete
    /\ outcome.state = "fulfilled"
    /\ Len(outcome.value.resources) >= 1
    /\ Len(outcome.value.resources) < Len(prior)

\* C7: in createResourceFromFile a rename (PUT) is sent only once the upload's
\* response has been received and found successful: it is the second request,
\* after the upload, and the two are never in flight together.
C7_RenameAfterUpload ==
    InCreateFromFile =>
        /\ Cardinality(inflight) <= 1
        /\ \A i \in DOMAIN requests :
               IsPut(requests[i]) =>
                   /\ i = 2
                   /\ IsUploadPost(requests[1])
                   /\ requests[1] \notin inflight
                   /\ Len(handled) >= 1
                   /\ handled[1].req = requests[1]
                   /\ Ok(handled[1].resp)
                   /\ handled[1].resp.data.success = "true"

C7_Witness ==
    /\ InCreateFromFile
    /\ Len(requests) = 2 /\ IsPut(requests[2])
    /\ requests[2] \in inflight

\* C8: in createResourceFromFile, when the upload succeeds and the rename
\* fails, the call rejects with the rename's own error, no further request is
\* sent, and the uploaded resource stays on the service with the title the
\* upload inferred.
C8_RenameFailurePropagates ==
    (RenameAnswered /\ ~Ok(handled[2].resp)) =>
        /\ outcome.state = "rejected"
        /\ outcome.error.type = "AxiosError"
        /\ outcome.error.hasResponse = (handled[2].resp.status # 0)
        /\ outcome.error.response = handled[2].resp
        /\ Len(requests) = 2
        /\ inflight = {}
        /\ \E i \in DOMAIN remote : remote[i] = handled[1].resp.data.res

C8_Witness ==
    /\ RenameAnswered /\ ~Ok(handled[2].resp)
    /\ handled[2].resp.status # 0
    /\ handled[1].resp.data.res.title # AfterLastSeparator(call.filePath)

\* C9: no request is sent again: getDatasetMetadata, createResourceRemote,
\* updateResource and deleteResource send exactly one request each, whatever
\* the answer, and createResourceFromFile at most one upload and one rename.
C9_NoRetry ==
    /\ call.name \in {"getDatasetMetadata", "createResourceRemote", "updateResource", "updateResourceDescription", "deleteResource"} =>
           Len(requests) = 1
    /\ InCreateFromFile =>
           /\ Cardinality({i \in DOMAIN requests : IsUploadPost(requests[i])}) <= 1
           /\ Cardinality({i \in DOMAIN requests : IsPut(requests[i])}) <= 1
           /\ \A i \in DOMAIN requests : IsUploadPost(requests[i]) \/ IsPut(requests[i])
    /\ call.name # "none" => inflight \cup {d.req : d \in arrived} \cup {handled[i].req : i \in DOMAIN handled} = Range(requests)

C9_Witness ==
    /\ call.name = "deleteResource"
    /\ pc = "settled"
    /\ outcome.state = "rejected"
    /\ Len(handled) = 1 /\ ~Ok(handled[1].resp)

\* C10: in createResourceFromFile the rename addresses the resource whose id
\* the upload's response returned, in the dataset and with the API key of the
\* upload.
C10_RenameAddressesUploaded ==
    InCreateFromFile =>
        \A i \in DOMAIN requests :
            IsPut(requests[i]) =>
                /\ Len(handled) >= 1
                /\ IsUploadPost(handled[1].req)
                /\ requests[i].url = <<call.baseUrl, "datasets", call.datasetId, "resources", handled[1].resp.data.res.id>>
                /\ requests[i].url[3] = handled[1].req.url[3]
                /\ requests[i].headers.apiKey = handled[1].req.headers.apiKey
                /\ requests[i].headers.apiKey = call.apiKey
                /\ \E j \in DOMAIN remote : remote[j].id = requests[i].url[5]

C10_Witness ==
    /\ InCreateFromFile
    /\ Len(handled) = 2 /\ IsPut(handled[2].req)
    /\ Ok(handled[2].resp)
    /\ Len(remote) >= 2

====
